---- MODULE Spec2Model ----
(***************************************************************************)
(* Model of the epidemic-control calculator core (src/model.py): the       *)
(* Infection parameter set, set_rates, suppress, compute_growth,           *)
(* get_r_and_growth, iterate (parameter sweep) and simulate.               *)
(*                                                                         *)
(* Numbers.  Python/numpy floats are modelled as exact extended rationals  *)
(* <<n, d>> in lowest terms with d >= 0: d > 0 is the finite value n/d,    *)
(* <<1,0>> and <<-1,0>> are +Inf and -Inf, <<0,0>> is NaN (numpy's result  *)
(* of 0/0).  Rounding error of binary floating point is abstracted away,   *)
(* so an equality proved here is an equality "within floating-point        *)
(* tolerance" of the program.                                              *)
(***************************************************************************)
EXTENDS Integers, Sequences, FiniteSets, TLC

VARIABLES inf, call, ret, nops

vars == <<inf, call, ret, nops>>

(* ------------------------------------------------------------------ *)
(* Extended rational arithmetic (the float operations the code uses).  *)
(* ------------------------------------------------------------------ *)

Abs(n) == IF n < 0 THEN -n ELSE n

Sgn(n) == IF n < 0 THEN -1 ELSE IF n > 0 THEN 1 ELSE 0

RECURSIVE GCD(_, _)
GCD(a, b) == IF b = 0 THEN a ELSE GCD(b, a % b)

\* <<n, d>> brought to lowest terms with a non-negative denominator.
Norm(n, d) ==
    IF d = 0 THEN <<Sgn(n), 0>>
    ELSE LET s == IF d < 0 THEN -1 ELSE 1
             g == GCD(Abs(n), Abs(d))
         IN  <<(s * n) \div g, (s * d) \div g>>

R(n) == <<n, 1>>

Zero == R(0)

One == R(1)

NaN == <<0, 0>>

IsFinite(a) == a[2] # 0

IsNaN(a) == a = NaN

Neg(a) == <<-a[1], a[2]>>

Add(a, b) ==
    IF a[2] = 0 \/ b[2] = 0
    THEN IF a[2] = 0 /\ b[2] = 0 /\ a[1] = b[1] THEN a
         ELSE <<Sgn(a[1] * b[2] + b[1] * a[2]), 0>>
    ELSE IF a[1] = 0 THEN b
    ELSE IF b[1] = 0 THEN a
    ELSE IF a[2] = b[2] THEN Norm(a[1] + b[1], a[2])
    ELSE LET g == GCD(a[2], b[2])
         IN  Norm(a[1] * (b[2] \div g) + b[1] * (a[2] \div g), (a[2] \div g) * b[2])

Sub(a, b) == Add(a, Neg(b))

Mul(a, b) ==
    IF a[2] = 0 \/ b[2] = 0
    THEN <<Sgn(a[1]) * Sgn(b[1]), 0>>
    ELSE IF a[1] = 0 \/ b[1] = 0 THEN <<0, 1>>
    ELSE IF a = <<1, 1>> THEN b
    ELSE IF b = <<1, 1>> THEN a
    ELSE LET g1 == GCD(Abs(a[1]), b[2])
             g2 == GCD(Abs(b[1]), a[2])
         IN  <<(a[1] \div g1) * (b[1] \div g2), (a[2] \div g2) * (b[2] \div g1)>>

\* 1/a; 1/0 is Inf, so that 0/0 = 0 * Inf = NaN as in numpy.
Recip(a) == IF a[1] < 0 THEN <<-a[2], -a[1]>> ELSE <<a[2], a[1]>>

Div(a, b) == Mul(a, Recip(b))

\* Comparisons of finite values; any comparison with NaN is false.
Leq(a, b) == ~IsNaN(a) /\ ~IsNaN(b) /\
             IF a[2] = 0 \/ b[2] = 0
             THEN (IF a[2] = 0 THEN a[1] ELSE 0) <= (IF b[2] = 0 THEN b[1] ELSE 0)
             ELSE LET g == GCD(a[2], b[2])
                  IN  a[1] * (b[2] \div g) <= b[1] * (a[2] \div g)

Lt(a, b) == Leq(a, b) /\ a # b

AbsR(a) == <<Abs(a[1]), a[2]>>

\* A sequence given as a function on 1..n, evaluated once into a tuple (an
\* array holds values, not a rule to recompute them).
Vec(f) == f \o <<>>

\* A Python list of ints as a sequence of numbers.
RI(s) == Vec([i \in 1..Len(s) |-> R(s[i])])

\* ndarray.cumsum: the running sums, built left to right.
RECURSIVE CumSumTo(_, _)
CumSumTo(s, k) ==
    IF k = 0 THEN <<>>
    ELSE IF k = 1 THEN <<s[1]>>
    ELSE LET prev == CumSumTo(s, k - 1)
         IN  Append(prev, Add(prev[k - 1], s[k]))

CumSum(s) == CumSumTo(s, Len(s))

\* np.sum / ndarray.sum
Sum(s) == IF Len(s) = 0 THEN Zero ELSE CumSum(s)[Len(s)]

\* np.ones(k), np.zeros(k), np.repeat(v, k) for k >= 0
Ones(k) == Vec([i \in 1..k |-> One])

Zeros(k) == Vec([i \in 1..k |-> Zero])

Repeat(v, k) == Vec([i \in 1..k |-> v])

\* s[:k] for k >= 0
Take(s, k) == Vec([i \in 1..(IF k < Len(s) THEN k ELSE Len(s)) |-> s[i]])

\* x @ y for vectors of equal length
Dot(x, y) == Sum(Vec([i \in 1..Len(x) |-> Mul(x[i], y[i])]))

AllFinite(s) == \A i \in 1..Len(s) : IsFinite(s[i])

(* ------------------------------------------------------------------ *)
(* The registry of variables and the Infection class.                  *)
(* ------------------------------------------------------------------ *)

\* None, and equally the empty list: both are falsy in `a or b`.
None == <<>>

\* Python truthiness of an optional number: None and 0 are falsy.
Falsy(x) == x = None \/ x = Zero

Variable(min, max, step, default) ==
    [min |-> min, max |-> max, step |-> step, default |-> default]

\* The keys of `variables`, in the dict's (insertion) order.
VarIds == <<"r0", "testing_rate", "testing_delay", "isolation_effectivity",
            "tracing_rate", "tracing_delay", "asymptomatic_inf">>

variables ==
    [r0                    |-> Variable(R(1), R(5), <<1, 10>>, R(2)),
     testing_rate          |-> Variable(R(0), R(100), R(5), R(50)),
     testing_delay         |-> Variable(R(0), R(10), R(1), R(3)),
     isolation_effectivity |-> Variable(R(0), R(100), R(5), R(90)),
     tracing_rate          |-> Variable(R(0), R(100), R(5), R(0)),
     tracing_delay         |-> Variable(R(0), R(10), R(1), R(1)),
     asymptomatic_inf      |-> Variable(R(0), R(100), R(5), R(20))]

\* The class attributes of Infection; `days` does not exist before set_rates.
ClassAttrs ==
    [r0                    |-> R(3),
     infection_rates       |-> RI(<<0, 1, 3, 6, 8, 6, 3, 1>>),
     symptoms              |-> RI(<<0, 0, 0, 0, 10, 20, 20, 10>>),
     days                  |-> None,
     testing_rate          |-> None,
     testing_delay         |-> None,
     isolation_effectivity |-> None,
     tracing_rate          |-> None,
     tracing_delay         |-> None,
     asymptomatic_inf      |-> None]

\* setattr(self, id, value)
setattr(self, id, value) == [self EXCEPT ![id] = value]

\* Mutant of set_rates: the profile is scaled with the r0 held before the call.
set_rates_stale_r0(self, r0, infection_rates, symptoms) ==
    LET new_r0 == IF Falsy(r0) THEN self.r0 ELSE r0
        raw    == IF infection_rates = None THEN self.infection_rates
                  ELSE infection_rates
        total  == Sum(raw)
        scaled == Vec([i \in 1..Len(raw) |-> Div(Mul(self.r0, raw[i]), total)])
    IN  [self EXCEPT !.r0 = new_r0,
                     !.infection_rates = scaled,
                     !.days = Len(scaled),
                     !.symptoms = IF symptoms = None THEN self.symptoms
                                  ELSE symptoms]

\* Infection.set_rates(r0=None, infection_rates=None, symptoms=None).
\* A zero sum divides by zero: numpy yields NaN (0/0) or +-Inf and goes on.
set_rates(self, r0, infection_rates, symptoms) ==
    LET new_r0 == IF Falsy(r0) THEN self.r0 ELSE r0
        raw    == IF infection_rates = None THEN self.infection_rates
                  ELSE infection_rates
        total  == Sum(raw)
        scaled == Vec([i \in 1..Len(raw) |-> Div(Mul(new_r0, raw[i]), total)])
    IN  [self EXCEPT !.r0 = new_r0,
                     !.infection_rates = scaled,
                     !.days = Len(scaled),
                     !.symptoms = IF symptoms = None THEN self.symptoms
                                  ELSE symptoms]

\* Mutant of SetDefaults: r0 is left at the class attribute.
RECURSIVE SetDefaults_skip_r0(_, _)
SetDefaults_skip_r0(self, k) ==
    IF k = 0 THEN self
    ELSE IF VarIds[k] = "r0" THEN SetDefaults_skip_r0(self, k - 1)
    ELSE setattr(SetDefaults_skip_r0(self, k - 1), VarIds[k],
                 variables[VarIds[k]].default)

RECURSIVE SetDefaults(_, _)
SetDefaults(self, k) ==
    IF k = 0 THEN self
    ELSE setattr(SetDefaults(self, k - 1), VarIds[k], variables[VarIds[k]].default)

\* Infection.__init__: every registry default is set on the instance (the
\* instance attribute r0 shadows the class attribute), then set_rates().
New == set_rates(SetDefaults(ClassAttrs, Len(VarIds)), None, None, None)

(* ------------------------------------------------------------------ *)
(* Suppression engine.                                                 *)
(* ------------------------------------------------------------------ *)

\* An integer-valued number used as a count (np.ones(k), ranges).
ToInt(x) == x[1]

Hundred == R(100)

\* symptoms / ((100 - sum) * (asymptomatic_inf / 100) + sum)
effective_symptoms(self) ==
    LET total == Sum(self.symptoms)
        denom == Add(Mul(Sub(Hundred, total), Div(self.asymptomatic_inf, Hundred)),
                     total)
    IN  Vec([i \in 1..Len(self.symptoms) |-> Div(self.symptoms[i], denom)])

\* Mutant of testing_suppression: the suppression is added, not subtracted.
testing_suppression_plus(self, es) ==
    LET cum == CumSum(es)
        k   == Mul(Div(self.testing_rate, Hundred),
                   Div(self.isolation_effectivity, Hundred))
    IN  Vec([i \in 1..Len(cum) |-> Add(One, Mul(k, cum[i]))])

testing_suppression(self, es) ==
    LET cum == CumSum(es)
        k   == Mul(Div(self.testing_rate, Hundred),
                   Div(self.isolation_effectivity, Hundred))
    IN  Vec([i \in 1..Len(cum) |-> Sub(One, Mul(k, cum[i]))])

overall_testing_suppression(self, es) ==
    LET ts   == testing_suppression(self, es)
        rest == self.days - Len(self.symptoms) - ToInt(self.testing_delay)
    IN  Take(Ones(ToInt(self.testing_delay)) \o ts \o
             (IF rest > 0 THEN Repeat(ts[Len(ts)], rest) ELSE <<>>),
             Len(self.infection_rates))

\* Mutant of tracing_suppression: tracing does not depend on testing_rate.
tracing_suppression_untested(self, es) ==
    Sub(One, Mul(Mul(Sum(es), Div(self.tracing_rate, Hundred)),
                 Div(self.isolation_effectivity, Hundred)))

tracing_suppression(self, es) ==
    Sub(One, Mul(Mul(Mul(Sum(es), Div(self.testing_rate, Hundred)),
                     Div(self.tracing_rate, Hundred)),
                 Div(self.isolation_effectivity, Hundred)))

\* Mutant of overall_tracing_suppression: tracing_delay is ignored.
overall_tracing_suppression_no_delay(self, es) ==
    LET rest == self.days - ToInt(self.testing_delay)
    IN  Take(Ones(ToInt(self.testing_delay)) \o
             (IF rest > 0 THEN Repeat(tracing_suppression(self, es), rest) ELSE <<>>),
             Len(self.infection_rates))

overall_tracing_suppression(self, es) ==
    LET rest == self.days - (ToInt(self.testing_delay) + ToInt(self.tracing_delay))
    IN  Take(Ones(ToInt(self.testing_delay) + ToInt(self.tracing_delay)) \o
             (IF rest > 0 THEN Repeat(tracing_suppression(self, es), rest) ELSE <<>>),
             Len(self.infection_rates))

\* self.infection_rates * overall_testing_suppression * overall_tracing_suppression
Product3(a, t, tr) == Vec([i \in 1..Len(a) |-> Mul(Mul(a[i], t[i]), tr[i])])

Max(a, b) == IF a > b THEN a ELSE b

Min(a, b) == IF a < b THEN a ELSE b

\* The elementwise product needs its three operands to have one length (numpy
\* raises ValueError otherwise): the lengths of the two multiplier sequences
\* after concatenation and truncation.
ShapesAgree(self) ==
    LET n  == Len(self.infection_rates)
        td == ToInt(self.testing_delay)
        tt == td + ToInt(self.tracing_delay)
    IN  /\ Min(n, td + Len(self.symptoms) + Max(self.days - Len(self.symptoms) - td, 0)) = n
        /\ Min(n, tt + Max(self.days - tt, 0)) = n

\* Infection.suppress
suppress(self) ==
    LET es == effective_symptoms(self)
    IN  Product3(self.infection_rates,
                 overall_testing_suppression(self, es),
                 overall_tracing_suppression(self, es))

(* ------------------------------------------------------------------ *)
(* Spectral growth estimator.                                          *)
(* ------------------------------------------------------------------ *)

\* The matrix of compute_growth: first row a, then the first days-1 rows of
\* the identity.
Companion(self, a) ==
    Vec([i \in 1..self.days |->
            IF i = 1 THEN a
            ELSE Vec([j \in 1..self.days |-> IF j = i - 1 THEN One ELSE Zero])])

\* Mutant of compute_growth: a 1x1 matrix is rejected.
compute_growth_no_1x1(self, a) ==
    IF ~AllFinite(a) \/ self.days = 1
    THEN [err |-> "LinAlgError", exact |-> FALSE, val |-> NaN]
    ELSE [err |-> "", exact |-> FALSE, val |-> NaN]

\* Infection.compute_growth: np.max(np.abs(np.linalg.eig(A)[0])).  eig raises
\* LinAlgError on a NaN or Inf entry.  The eigenvalue of a 1x1 matrix is its
\* entry; for a larger matrix the dominant eigenvalue is in general
\* irrational and is left undetermined (exact = FALSE, val unused).
compute_growth(self, a) ==
    LET A == Companion(self, a)
    IN  IF ~AllFinite(a) THEN [err |-> "LinAlgError", exact |-> FALSE, val |-> NaN]
        ELSE IF Len(A) = 1 THEN [err |-> "", exact |-> TRUE, val |-> AbsR(A[1][1])]
        ELSE [err |-> "", exact |-> FALSE, val |-> NaN]

\* (growth - 1.0) * 100
growth_percent(g) ==
    [exact |-> g.exact,
     val   |-> IF g.exact THEN Mul(Sub(g.val, One), Hundred) ELSE NaN]

NoPerc == [exact |-> FALSE, val |-> NaN]

\* Infection.get_r_and_growth
get_r_and_growth(self) ==
    IF ~ShapesAgree(self)
    THEN [err |-> "ValueError", r |-> NaN, perc |-> NoPerc]
    ELSE LET effective_daily_infectiousness == suppress(self)
             growth == compute_growth(self, effective_daily_infectiousness)
         IN  IF growth.err # ""
             THEN [err |-> growth.err, r |-> NaN, perc |-> NoPerc]
             ELSE [err  |-> "",
                   r    |-> Sum(effective_daily_infectiousness),
                   perc |-> growth_percent(growth)]

(* ------------------------------------------------------------------ *)
(* Parameter sweep.                                                    *)
(* ------------------------------------------------------------------ *)

\* 0.00001, the tolerance factor of frange
Tolerance == <<1, 100000>>

\* Mutant of frange: the upper end is excluded (x < y, no tolerance).
RECURSIVE frange_exclusive(_, _, _)
frange_exclusive(x, y, jump) ==
    IF Lt(x, y)
    THEN <<x>> \o frange_exclusive(Add(x, jump), y, jump)
    ELSE <<>>

\* frange(x, y, jump): x, x + jump, ... while x <= y + 0.00001 * jump
RECURSIVE frange(_, _, _)
frange(x, y, jump) ==
    IF Leq(x, Add(y, Mul(Tolerance, jump)))
    THEN <<x>> \o frange(Add(x, jump), y, jump)
    ELSE <<>>

\* d = {k: v.getter(self) ...}; d["r"], d["perc"] = self.get_r_and_growth()
SweepRecord(self, rg) ==
    [r0                    |-> self.r0,
     testing_rate          |-> self.testing_rate,
     testing_delay         |-> self.testing_delay,
     isolation_effectivity |-> self.isolation_effectivity,
     tracing_rate          |-> self.tracing_rate,
     tracing_delay         |-> self.tracing_delay,
     asymptomatic_inf      |-> self.asymptomatic_inf,
     r                     |-> rg.r,
     perc                  |-> rg.perc]

\* One pass of the loop body of iterate for the swept value x.
IterateStep(self, id, x) ==
    IF id = "r0" THEN set_rates(self, x, None, None) ELSE setattr(self, id, x)

\* The loop of iterate over xs[k..]: an exception raised by get_r_and_growth
\* leaves the loop with the parameter set as mutated so far.
RECURSIVE IterateLoop(_, _, _, _, _)
IterateLoop(self, id, xs, k, data) ==
    IF k > Len(xs) THEN [self |-> self, err |-> "", data |-> data]
    ELSE LET s1 == IterateStep(self, id, xs[k])
             rg == get_r_and_growth(s1)
         IN  IF rg.err # ""
             THEN [self |-> s1, err |-> rg.err, data |-> <<>>]
             ELSE IterateLoop(s1, id, xs, k + 1, Append(data, SweepRecord(s1, rg)))

\* Infection.iterate
iterate(self, id) ==
    LET var == variables[id]
    IN  IterateLoop(self, id, frange(var.min, var.max, var.step), 1, <<>>)

(* ------------------------------------------------------------------ *)
(* Forward simulator.                                                  *)
(* ------------------------------------------------------------------ *)

\* Mutant of transmit: the recorded R is the unsuppressed sum.
transmit_raw_r(self, x) ==
    LET suppressed == suppress(self)
    IN  [new |-> <<Dot(x, suppressed)>> \o Take(x, Len(x) - 1),
         r   |-> Sum(self.infection_rates)]

\* Mutant of transmit: the newest entry of the window is dropped, not the oldest.
transmit_drop_newest(self, x) ==
    LET suppressed == suppress(self)
    IN  [new |-> <<Dot(x, suppressed)>> \o Tail(x),
         r   |-> Sum(suppressed)]

\* Infection._transmit: (np.append([x @ suppressed], x[:-1]), sum(suppressed))
transmit(self, x) ==
    LET suppressed == suppress(self)
    IN  [new |-> <<Dot(x, suppressed)>> \o Take(x, Len(x) - 1),
         r   |-> Sum(suppressed)]

RECURSIVE SimulateLoop(_, _, _, _)
SimulateLoop(self, x, rs, i) ==
    IF i = 0 THEN [err |-> "", x |-> x, rs |-> rs]
    ELSE LET t == transmit(self, x[Len(x)])
         IN  SimulateLoop(self, Append(x, t.new), Append(rs, t.r), i - 1)

\* Infection.simulate: np.zeros of a negative length raises ValueError.
simulate(self, initial_cases, n) ==
    IF self.days - Len(initial_cases) < 0 \/ (n > 0 /\ ~ShapesAgree(self))
    THEN [err |-> "ValueError", x |-> <<>>, rs |-> <<>>]
    ELSE SimulateLoop(self,
                      <<initial_cases \o Zeros(self.days - Len(initial_cases))>>,
                      <<self.r0>>, n)

(* ------------------------------------------------------------------ *)
(* The state machine: one Infection object and the calls made on it.   *)
(* ------------------------------------------------------------------ *)

\* Largest number of calls made on one Infection object.
MaxOps == 2

\* Largest number of simulation steps n tried.
MaxSteps == 2

\* Arguments tried for set_rates (None = argument omitted).
R0Inputs == {None, R(3)}

ProfileInputs == {None, RI(<<1>>)}

SymptomInputs == {None, RI(<<50>>)}

\* Raw infection vectors whose sum is zero.
ZeroSumProfiles == {RI(<<0, 0, 0>>), RI(<<0>>)}

\* Values assigned directly to the scalar fields.
AttrInputs ==
    [testing_rate          |-> {R(0)},
     testing_delay         |-> {R(0)},
     isolation_effectivity |-> {R(50)},
     tracing_rate          |-> {R(50)},
     tracing_delay         |-> {R(0)},
     asymptomatic_inf      |-> {R(0)}]

InitialCases == {RI(<<1>>), RI(<<2, 1>>)}

NoRet == [err |-> ""]

Init ==
    /\ inf = New
    /\ call = [op |-> "__init__", arg |-> <<>>]
    /\ ret = NoRet
    /\ nops = 0

\* inf = Infection(), as the dashboard callback does for every request.
Construct ==
    /\ inf' = New
    /\ call' = [op |-> "__init__", arg |-> <<>>]
    /\ ret' = NoRet
    /\ nops' = 0

\* inf.set_rates(r0, infection_rates, symptoms), raw vector of nonzero sum.
SetRates ==
    /\ nops < MaxOps
    /\ \E r0 \in R0Inputs, ir \in ProfileInputs, sy \in SymptomInputs :
        /\ inf' = set_rates(inf, r0, ir, sy)
        /\ call' = [op |-> "set_rates", arg |-> <<r0, ir, sy>>]
    /\ ret' = NoRet
    /\ nops' = nops + 1

\* inf.set_rates(r0, infection_rates), raw vector summing to zero.
SetRatesZeroSum ==
    /\ nops < MaxOps
    /\ \E r0 \in R0Inputs, ir \in ZeroSumProfiles :
        /\ inf' = set_rates(inf, r0, ir, None)
        /\ call' = [op |-> "set_rates", arg |-> <<r0, ir, None>>]
    /\ ret' = NoRet
    /\ nops' = nops + 1

\* setattr(inf, id, value) for a scalar field other than r0.
SetAttr ==
    /\ nops < MaxOps
    /\ \E id \in DOMAIN AttrInputs : \E v \in AttrInputs[id] :
        /\ inf' = setattr(inf, id, v)
        /\ call' = [op |-> "setattr", arg |-> <<id, v>>]
    /\ ret' = NoRet
    /\ nops' = nops + 1

\* inf.get_r_and_growth(): point evaluation.
Evaluate ==
    /\ nops < MaxOps
    /\ inf' = inf
    /\ call' = [op |-> "get_r_and_growth", arg |-> <<>>]
    /\ ret' = get_r_and_growth(inf)
    /\ nops' = nops + 1

\* inf.iterate(id)
Iterate ==
    /\ nops < MaxOps
    /\ \E k \in 1..Len(VarIds) : \E res \in {iterate(inf, VarIds[k])} :
        /\ inf' = res.self
        /\ call' = [op |-> "iterate", arg |-> <<VarIds[k]>>]
        /\ ret' = [err |-> res.err, data |-> res.data]
    /\ nops' = nops + 1

\* inf.simulate(initial_cases, n)
Simulate ==
    /\ nops < MaxOps
    /\ \E ic \in InitialCases, n \in {0, MaxSteps} :
        /\ call' = [op |-> "simulate", arg |-> <<ic, n>>]
        /\ ret' = simulate(inf, ic, n)
    /\ inf' = inf
    /\ nops' = nops + 1

Next == Construct \/ SetRates \/ SetAttr \/ Evaluate \/ Iterate \/ Simulate

Spec == Init /\ [][Next]_vars

\* The same machine with set_rates also called on zero-sum raw vectors.
NextAll == Next \/ SetRatesZeroSum

SpecAll == Init /\ [][NextAll]_vars

(* ------------------------------------------------------------------ *)
(* Properties.                                                         *)
(* ------------------------------------------------------------------ *)

\* C1: in every state reached by set_rates calls (positive r0, raw vector of
\* nonzero sum), direct assignments to the scalar fields other than r0,
\* iterate calls and simulate calls on a constructed Infection, the stored
\* infection profile sums to the stored r0 and days is the profile's length.
C1_Normalized ==
    /\ Sum(inf.infection_rates) = inf.r0
    /\ inf.days = Len(inf.infection_rates)

\* A sweep of r0 run after set_rates replaced the profile by a one-day one.
C1_Witness ==
    /\ call.op = "iterate" /\ call.arg = <<"r0">>
    /\ nops = 2
    /\ inf.days = 1
    /\ inf.r0 = R(5)
    /\ inf.infection_rates = <<R(5)>>

\* C2: set_rates called with a raw infection vector summing to zero fails
\* with an error and stores no NaN/Inf infection profile.
C2_ZeroSumRejected ==
    (call.op = "set_rates" /\ call.arg[2] # None /\ Sum(call.arg[2]) = Zero)
        => (ret.err # "" /\ AllFinite(inf.infection_rates))

\* C3 as stated: with testing_rate = 0 or tracing_rate = 0 both multiplier
\* sequences are 1 on every day, suppress() is the stored profile and R = r0.
C3_Original ==
    (inf.testing_rate = Zero \/ inf.tracing_rate = Zero) =>
        LET es == effective_symptoms(inf)
        IN  /\ overall_testing_suppression(inf, es) = Ones(inf.days)
            /\ overall_tracing_suppression(inf, es) = Ones(inf.days)
            /\ suppress(inf) = inf.infection_rates
            /\ get_r_and_growth(inf).r = inf.r0

\* C3 amended: with testing_rate = 0 and a nonzero denominator
\* (100 - sum(symptoms)) * asymptomatic_inf / 100 + sum(symptoms), both
\* multiplier sequences are 1 on every day, suppress() is the stored profile
\* and the R of get_r_and_growth (also in every sweep record whose
\* testing_rate is 0) equals r0; with tracing_rate = 0 alone only the tracing
\* multiplier sequence is 1 on every day.
C3_NoTestingIdentity ==
    LET es    == effective_symptoms(inf)
        total == Sum(inf.symptoms)
        denom == Add(Mul(Sub(Hundred, total), Div(inf.asymptomatic_inf, Hundred)),
                     total)
    IN  denom # Zero =>
        /\ inf.testing_rate = Zero =>
            /\ overall_testing_suppression(inf, es) = Ones(inf.days)
            /\ overall_tracing_suppression(inf, es) = Ones(inf.days)
            /\ suppress(inf) = inf.infection_rates
            /\ get_r_and_growth(inf).r = inf.r0
            /\ call.op = "get_r_and_growth" => (ret.err = "" /\ ret.r = inf.r0)
        /\ inf.tracing_rate = Zero =>
            overall_tracing_suppression(inf, es) = Ones(inf.days)
        /\ (call.op = "iterate" /\ ret.err = "") =>
            \A i \in 1..Len(ret.data) :
                ret.data[i].testing_rate = Zero => ret.data[i].r = ret.data[i].r0

\* A sweep of tracing_rate with testing off, on a profile longer than the delays.
C3_Witness ==
    /\ call.op = "iterate" /\ call.arg = <<"tracing_rate">>
    /\ inf.testing_rate = Zero
    /\ inf.tracing_rate = Hundred
    /\ inf.days > ToInt(inf.testing_delay) + ToInt(inf.tracing_delay)
    /\ suppress(inf) = inf.infection_rates
    /\ ret.data[Len(ret.data)].r = inf.r0

\* C4: iterate(id) returns exactly (max - min)/step + 1 records, record i
\* carrying min + (i-1)*step in the field named id (so both endpoints are
\* included and the swept values strictly increase); iterate("r0") returns
\* 41 records.
C4_SweepComplete ==
    call.op = "iterate" =>
        LET id  == call.arg[1]
            var == variables[id]
            n   == ToInt(Div(Sub(var.max, var.min), var.step)) + 1
        IN  /\ ret.err = ""
            /\ Len(ret.data) = n
            /\ \A i \in 1..n :
                ret.data[i][id] = Add(var.min, Mul(R(i - 1), var.step))
            /\ ret.data[1][id] = var.min
            /\ ret.data[n][id] = var.max
            /\ \A i \in 1..(n - 1) : Lt(ret.data[i][id], ret.data[i + 1][id])
            /\ id = "r0" => n = 41

C4_Witness ==
    /\ call.op = "iterate" /\ call.arg = <<"r0">>
    /\ Len(ret.data) = 41
    /\ ret.data[1].r0 = R(1)
    /\ ret.data[2].r0 = <<11, 10>>
    /\ ret.data[41].r0 = R(5)

\* C5: the R series simulate(initial_cases, n) returns has n+1 entries:
\* entry 0 is r0, every later entry is the sum of suppress() on the same,
\* unchanged parameter set.
C5_RSeries ==
    (call.op = "simulate" /\ ret.err = "") =>
        LET n == call.arg[2]
        IN  /\ Len(ret.rs) = n + 1
            /\ ret.rs[1] = inf.r0
            /\ \A i \in 2..(n + 1) : ret.rs[i] = Sum(suppress(inf))

C5_Witness ==
    /\ call.op = "simulate" /\ ret.err = ""
    /\ call.arg[2] = MaxSteps
    /\ Len(ret.rs) = MaxSteps + 1
    /\ ret.rs[1] = inf.r0
    /\ Lt(ret.rs[2], inf.r0)

\* C6: with testing_rate > 0, all rates in [0,100], non-negative delays and a
\* non-negative symptom profile summing to at most 100, the r column of
\* iterate("isolation_effectivity") is non-increasing: a larger
\* isolation_effectivity never has a larger R.
C6_MonotoneIsolation ==
    (/\ call.op = "iterate" /\ call.arg = <<"isolation_effectivity">>
     /\ Lt(Zero, inf.testing_rate) /\ Leq(inf.testing_rate, Hundred)
     /\ Leq(Zero, inf.tracing_rate) /\ Leq(inf.tracing_rate, Hundred)
     /\ Leq(Zero, inf.asymptomatic_inf) /\ Leq(inf.asymptomatic_inf, Hundred)
     /\ Leq(Zero, inf.testing_delay) /\ Leq(Zero, inf.tracing_delay)
     /\ \A d \in 1..Len(inf.symptoms) : Leq(Zero, inf.symptoms[d])
     /\ Leq(Sum(inf.symptoms), Hundred))
    => /\ ret.err = ""
       /\ \A i \in 1..Len(ret.data) : \A j \in i..Len(ret.data) :
            /\ Leq(ret.data[i].isolation_effectivity, ret.data[j].isolation_effectivity)
            /\ Leq(ret.data[j].r, ret.data[i].r)

C6_Witness ==
    /\ call.op = "iterate" /\ call.arg = <<"isolation_effectivity">>
    /\ Lt(Zero, inf.testing_rate)
    /\ ret.data[1].r = inf.r0
    /\ Lt(ret.data[2].r, ret.data[1].r)
    /\ Lt(ret.data[Len(ret.data)].r, ret.data[2].r)

\* C7 as stated: a newly constructed Infection has r0 = 3.0, the default
\* profile normalized to sum 3.0, the other defaults, and R below 3.0.
C7_Original ==
    call.op = "__init__" =>
        /\ inf.r0 = R(3)
        /\ Sum(inf.infection_rates) = R(3)
        /\ \A d \in 1..8 :
            inf.infection_rates[d] =
                Div(Mul(R(3), RI(<<0, 1, 3, 6, 8, 6, 3, 1>>)[d]), R(28))
        /\ inf.symptoms = RI(<<0, 0, 0, 0, 10, 20, 20, 10>>)
        /\ inf.testing_rate = R(50) /\ inf.testing_delay = R(3)
        /\ inf.isolation_effectivity = R(90)
        /\ inf.tracing_rate = R(0) /\ inf.tracing_delay = R(1)
        /\ inf.asymptomatic_inf = R(20)
        /\ Lt(get_r_and_growth(inf).r, R(3))

\* C7 amended: a newly constructed Infection has r0 = 2.0 (the registry
\* default, which __init__ sets over the class attribute 3.0), the profile of
\* raw shape [0,1,3,6,8,6,3,1] normalized to sum 2.0, symptom profile
\* [0,0,0,0,10,20,20,10], testing_rate 50, testing_delay 3,
\* isolation_effectivity 90, tracing_rate 0, tracing_delay 1,
\* asymptomatic_inf 20, and point evaluation yields R strictly below 2.0.
C7_Defaults ==
    call.op = "__init__" =>
        /\ inf.r0 = R(2)
        /\ Sum(inf.infection_rates) = R(2)
        /\ inf.days = 8
        /\ \A d \in 1..8 :
            inf.infection_rates[d] =
                Div(Mul(R(2), RI(<<0, 1, 3, 6, 8, 6, 3, 1>>)[d]), R(28))
        /\ inf.symptoms = RI(<<0, 0, 0, 0, 10, 20, 20, 10>>)
        /\ inf.testing_rate = R(50) /\ inf.testing_delay = R(3)
        /\ inf.isolation_effectivity = R(90)
        /\ inf.tracing_rate = R(0) /\ inf.tracing_delay = R(1)
        /\ inf.asymptomatic_inf = R(20)
        /\ get_r_and_growth(inf).err = ""
        /\ Lt(get_r_and_growth(inf).r, R(2))

C7_Witness ==
    /\ call.op = "__init__"
    /\ inf.r0 = R(2)
    /\ inf.infection_rates[5] = <<4, 7>>
    /\ Lt(get_r_and_growth(inf).r, inf.r0)
    /\ Lt(Zero, get_r_and_growth(inf).r)

\* C8: with days = 1 get_r_and_growth completes without error, the growth
\* factor is the magnitude of the single effective-infectiousness value, so
\* growthPercent = (|effective[0]| - 1) * 100, which for a non-negative value
\* is (R - 1) * 100.
C8_OneDay ==
    (call.op = "get_r_and_growth" /\ inf.days = 1) =>
        LET e == suppress(inf)
        IN  /\ ret.err = ""
            /\ ret.perc.exact
            /\ ret.perc.val = Mul(Sub(AbsR(e[1]), One), Hundred)
            /\ ret.r = e[1]
            /\ Leq(Zero, e[1]) => ret.perc.val = Mul(Sub(ret.r, One), Hundred)

C8_Witness ==
    /\ call.op = "get_r_and_growth" /\ inf.days = 1
    /\ ret.err = ""
    /\ ret.r = R(3)
    /\ ret.perc.val = R(200)

\* C9: for initial_cases no longer than days, simulate returns a case matrix
\* of n+1 rows of length days: row 0 is initial_cases padded with zeros, and
\* row k+1 is the dot product of row k with suppress() followed by row k
\* without its last (oldest) entry.
C9_CaseMatrix ==
    (call.op = "simulate" /\ Len(call.arg[1]) <= inf.days) =>
        LET ic == call.arg[1]
            n  == call.arg[2]
            e  == suppress(inf)
        IN  /\ ret.err = ""
            /\ Len(ret.x) = n + 1
            /\ \A k \in 1..(n + 1) : Len(ret.x[k]) = inf.days
            /\ \A j \in 1..inf.days :
                ret.x[1][j] = IF j <= Len(ic) THEN ic[j] ELSE Zero
            /\ \A k \in 1..n :
                /\ ret.x[k + 1][1] = Dot(ret.x[k], e)
                /\ \A j \in 2..inf.days : ret.x[k + 1][j] = ret.x[k][j - 1]

C9_Witness ==
    /\ call.op = "simulate" /\ ret.err = ""
    /\ call.arg = <<RI(<<2, 1>>), MaxSteps>>
    /\ inf.days = 8
    /\ Len(ret.x) = MaxSteps + 1
    /\ Lt(Zero, ret.x[2][1])
    /\ ret.x[3][3] = R(2)

\* C10: for a non-empty symptom profile and non-negative delays (also delays
\* reaching past the last day), suppress() has exactly days entries; the testing multiplier is 1 on
\* every day d < testing_delay; the tracing multiplier is 1 on every day
\* d < testing_delay + tracing_delay and the tracing-suppression scalar on
\* every later day; effective[d] = infection_profile[d] for d < testing_delay.
\* (Days are 0-based in the program, 1-based here.)
C10_DelayedMultipliers ==
    LET es == effective_symptoms(inf)
        t  == overall_testing_suppression(inf, es)
        tr == overall_tracing_suppression(inf, es)
        td == ToInt(inf.testing_delay)
        tt == ToInt(inf.testing_delay) + ToInt(inf.tracing_delay)
        e  == suppress(inf)
    IN  (Len(inf.symptoms) > 0 /\ td >= 0 /\ tt >= td) =>
        /\ Len(t) = inf.days /\ Len(tr) = inf.days /\ Len(e) = inf.days
        /\ \A d \in 1..inf.days :
            /\ d <= td => (t[d] = One /\ e[d] = inf.infection_rates[d])
            /\ d <= tt => tr[d] = One
            /\ d > tt => tr[d] = tracing_suppression(inf, es)
            /\ e[d] = Mul(Mul(inf.infection_rates[d], t[d]), tr[d])

\* Delays that reach past the last day, with tracing switched on.
C10_Witness ==
    /\ ToInt(inf.testing_delay) + ToInt(inf.tracing_delay) >= inf.days
    /\ ToInt(inf.testing_delay) + Len(inf.symptoms) >= inf.days
    /\ inf.days > 1
    /\ inf.tracing_rate # Zero /\ inf.testing_rate # Zero
    /\ tracing_suppression(inf, effective_symptoms(inf)) # One
    /\ suppress(inf) = inf.infection_rates

====
